---- MODULE Spec2Model ----
(***************************************************************************)
(* The code block command of ckeditor5-code-block (src/codeblockcommand.js *)
(* and the schema rules of src/codeblockediting.js), as a state machine    *)
(* over a document tree.                                                   *)
(*                                                                         *)
(* A node is a record [name, id, children]; `id` stands for the identity   *)
(* of the JavaScript object.  The document is the sequence `root` of the   *)
(* children of the $root element.  Blocks carry the ids 1..NumBlocks and   *)
(* never change their relative document order unless an edit moves them;   *)
(* codeBlock elements carry ids above NumBlocks.                           *)
(*                                                                         *)
(* Positions are paths as in the engine (root + path, offsets from 0):     *)
(* <<o>> is the position at offset o of $root, <<i, o>> the position at    *)
(* offset o of the i-th child of $root.  A position is resolved against    *)
(* the tree each time it is read, so a range computed before an edit is    *)
(* read against the tree after it, as in the code.                         *)
(***************************************************************************)
EXTENDS Integers, Sequences, FiniteSets, TLC

\* Number of blocks of the document.
NumBlocks == 4

Blocks == 1..NumBlocks

\* Number of sibling blocks of the documents on which getRangesOfBlockGroups
\* is checked by itself (a..h of its comment).
GroupBlocks == 8

\* Identities of blocks are at most IdBase, those of codeBlocks above it.
IdBase == NumBlocks + GroupBlocks

\* Identities available for codeBlock elements: those of the document before
\* and at the start of one execute() plus one per group it may create.
ContainerIds == (IdBase + 1)..(IdBase + 3 * (NumBlocks + GroupBlocks) + 1)

\* null / undefined
NULL == 0

\* Names of the block elements of the host's schema.  Both inherit from
\* $block; the host forbids fooBlock inside codeBlock with a child check.
BlockNames == {"paragraph", "fooBlock"}

VARIABLES
    root,        \* children of the $root element: the document tree
    selection,   \* ids of the blocks doc.selection.getSelectedBlocks() yields
    value,       \* CodeBlockCommand#value
    isEnabled,   \* CodeBlockCommand#isEnabled
    op,          \* the last handler that ran: "init", "select", "wrap", "unwrap"
    pre,         \* the tree before the last execute()
    preEnabled,  \* isEnabled when the last execute() was called
    err,         \* what the last execute() threw: "none" or "TypeError"
    op2,         \* the handler that ran before the last one
    pre2,        \* the tree before that handler
    groups,      \* the ranges getRangesOfBlockGroups returned last
    log          \* the steps of the last execute(), in the order they ran

vars == <<root, selection, value, isEnabled, op, pre, preEnabled, err, op2, pre2, groups,
          log>>

-----------------------------------------------------------------------------
(* Sequences *)

Reverse(s) == [i \in 1..Len(s) |-> s[Len(s) + 1 - i]]

\* s without the items at offsets from..to-1 (offsets from 0)
RemoveItems(s, from, to) == SubSeq(s, 1, from) \o SubSeq(s, to + 1, Len(s))

\* s with items inserted at offset o
InsertItems(s, o, items) == SubSeq(s, 1, o) \o items \o SubSeq(s, o + 1, Len(s))

Min(S) == CHOOSE x \in S : \A y \in S : x <= y

-----------------------------------------------------------------------------
(* The tree *)

IsContainer(n) == n.name = "codeBlock"

RootNode(t) == [name |-> "$root", id |-> NULL, children |-> t]

\* The blocks of the tree in document order, container boundaries ignored.
RECURSIVE Flatten(_)
Flatten(t) ==
    IF t = <<>> THEN <<>>
    ELSE (IF IsContainer(Head(t)) THEN Flatten(Head(t).children) ELSE <<Head(t)>>)
         \o Flatten(Tail(t))

\* Ids of all elements of the tree.
RECURSIVE IdsOf(_)
IdsOf(t) ==
    IF t = <<>> THEN {}
    ELSE {Head(t).id} \cup IdsOf(Head(t).children) \cup IdsOf(Tail(t))

IndexOf(s, id) ==
    IF \E i \in 1..Len(s) : s[i].id = id
    THEN CHOOSE i \in 1..Len(s) : s[i].id = id
    ELSE 0

\* Path of the position before the node `id`; <<>> when the node is not in the tree.
PathOf(t, id) ==
    IF IndexOf(t, id) # 0 THEN <<IndexOf(t, id) - 1>>
    ELSE IF \E i \in 1..Len(t) : IndexOf(t[i].children, id) # 0
    THEN LET i == CHOOSE i \in 1..Len(t) : IndexOf(t[i].children, id) # 0
         IN  <<i - 1, IndexOf(t[i].children, id) - 1>>
    ELSE <<>>

\* Node#parent of the node `id`, which is in the tree.
ParentNode(t, id) ==
    LET p == PathOf(t, id)
    IN  IF Len(p) = 1 THEN RootNode(t) ELSE t[p[1] + 1]

\* Node#nextSibling: the id of the next sibling, NULL if there is none or the
\* node is detached.
nextSibling(t, id) ==
    LET p == PathOf(t, id)
    IN  IF p = <<>> THEN NULL
        ELSE LET sibs == IF Len(p) = 1 THEN t ELSE t[p[1] + 1].children
                 o == p[Len(p)] + 1
             IN  IF o + 1 <= Len(sibs) THEN sibs[o + 1].id ELSE NULL

-----------------------------------------------------------------------------
(* Positions and ranges (engine/model/position, engine/model/range) *)

Offset(path) == path[Len(path)]

\* Position#parent, resolved against the current tree.
PosParent(t, path) == IF Len(path) = 1 THEN RootNode(t) ELSE t[path[1] + 1]

isAtStart(path) == Offset(path) = 0

isAtEnd(t, path) == Offset(path) = Len(PosParent(t, path).children)

\* Position#nodeAfter, by id
nodeAfter(t, path) ==
    LET kids == PosParent(t, path).children
    IN  IF Offset(path) + 1 <= Len(kids) THEN kids[Offset(path) + 1].id ELSE NULL

createBefore(t, id) == PathOf(t, id)

createAfter(t, id) ==
    LET p == PathOf(t, id) IN [p EXCEPT ![Len(p)] = @ + 1]

\* The tree with the children of the parent of `path` replaced by kids.
WithChildren(t, path, kids) ==
    IF Len(path) = 1 THEN kids
    ELSE [t EXCEPT ![path[1] + 1].children = kids]

-----------------------------------------------------------------------------
(* The writer's edits (engine/model/writer), as the command uses them.  A  *)
(* range is [start |-> path, end |-> path] with both ends in one parent.   *)

RangeItems(t, range) ==
    SubSeq(PosParent(t, range.start).children, Offset(range.start) + 1, Offset(range.end))

\* Position#_getTransformedByDeletion: where `target` lies once the flat
\* range `range` has been removed from the tree.
TransformedByDeletion(target, range) ==
    LET s == range.start
        howMany == Offset(range.end) - Offset(range.start)
    IN  IF Len(s) = Len(target) /\ SubSeq(s, 1, Len(s) - 1) = SubSeq(target, 1, Len(s) - 1)
        THEN IF Offset(s) < Offset(target)
             THEN [target EXCEPT ![Len(target)] = @ - howMany]
             ELSE target
        ELSE IF Len(s) < Len(target) /\ Offset(s) <= target[Len(s)]
        THEN [target EXCEPT ![Len(s)] = @ - howMany]
        ELSE target

\* writer.move( range, position ): the items of the range are taken out and
\* inserted at the position, which is given in the tree before the move.
writerMove(t, range, position) ==
    LET items == RangeItems(t, range)
        kids == PosParent(t, range.start).children
        t1 == WithChildren(t, range.start,
                           RemoveItems(kids, Offset(range.start), Offset(range.end)))
        target == TransformedByDeletion(position, range)
    IN  WithChildren(t1, target,
                     InsertItems(PosParent(t1, target).children, Offset(target), items))

\* writer.unwrap( element ): the element is replaced by its children.
writerUnwrap(t, element) ==
    LET p == PathOf(t, element.id)
        kids == PosParent(t, p).children
    IN  WithChildren(t, p,
                     InsertItems(RemoveItems(kids, Offset(p), Offset(p) + 1),
                                 Offset(p), element.children))

\* writer.split( position ): the parent of the position keeps what precedes
\* the position; a new element of the same name, inserted right after it,
\* takes the rest.
writerSplit(t, position, newId) ==
    LET el == PosParent(t, position)
        o == Offset(position)
        left == [el EXCEPT !.children = SubSeq(el.children, 1, o)]
        right == [name |-> el.name, id |-> newId,
                  children |-> SubSeq(el.children, o + 1, Len(el.children))]
        i == position[1] + 1
    IN  SubSeq(t, 1, i - 1) \o <<left, right>> \o SubSeq(t, i + 1, Len(t))

\* writer.wrap( range, element ): the new element takes the place of the
\* range and the items of the range become its children.
writerWrap(t, range, element) ==
    LET kids == PosParent(t, range.start).children
        items == RangeItems(t, range)
    IN  WithChildren(t, range.start,
                     InsertItems(RemoveItems(kids, Offset(range.start), Offset(range.end)),
                                 Offset(range.start),
                                 <<[element EXCEPT !.children = items]>>))

\* writer.merge( position ): the children of the element after the position
\* are appended to the element before it, and the element after is removed.
writerMerge(t, position) ==
    LET kids == PosParent(t, position).children
        o == Offset(position)
        before == kids[o]
        after == kids[o + 1]
        merged == [before EXCEPT !.children = before.children \o after.children]
    IN  WithChildren(t, position,
                     SubSeq(kids, 1, o - 1) \o <<merged>> \o SubSeq(kids, o + 2, Len(kids)))

\* new Element( 'codeBlock' ): an element whose identity no element has that
\* is, or was at the start of this execute(), in the document.
NewElement(used) == [name |-> "codeBlock", id |-> Min(ContainerIds \ used), children |-> <<>>]

-----------------------------------------------------------------------------
(* The schema (src/codeblockediting.js, and the host's block elements) *)

\* The names of the ancestors of the children of element `el`, from $root.
ContextOf(el) == IF el.name = "$root" THEN <<"$root">> ELSE <<"$root", el.name>>

\* A faulty variant: the child check that disallows codeBlock in codeBlock
\* is not registered.
checkChild_NoCodeBlockCheck(ctx, child) ==
    LET last == ctx[Len(ctx)]
    IN  IF last = "codeBlock" /\ child = "fooBlock" THEN FALSE
        ELSE last \in {"$root", "codeBlock"} /\ child \in BlockNames \cup {"codeBlock"}

\* schema.checkChild( context, child ).  The child checks come first:
\* codeBlock is disallowed in codeBlock (this plugin), fooBlock is disallowed
\* in codeBlock (the host).  Then the declared rules: the blocks are allowed in
\* $root, codeBlock is allowed where $block is, and codeBlock allows the
\* content of $root.
checkChild(ctx, child) ==
    LET last == ctx[Len(ctx)]
    IN  IF last = "codeBlock" /\ child = "codeBlock" THEN FALSE
        ELSE IF last = "codeBlock" /\ child = "fooBlock" THEN FALSE
        ELSE last \in {"$root", "codeBlock"} /\ child \in BlockNames \cup {"codeBlock"}

-----------------------------------------------------------------------------
(* src/codeblockcommand.js *)

\* findBlock( element )
findBlock(t, id) ==
    IF ParentNode(t, id).name = "codeBlock" THEN ParentNode(t, id).id ELSE NULL

\* findBlock( position )
findBlockOfPosition(t, position) ==
    IF PosParent(t, position).name = "codeBlock" THEN PosParent(t, position).id ELSE NULL

checkCanBeBlocked(t, id) ==
    LET block == CHOOSE b \in {Flatten(t)[i] : i \in 1..Len(Flatten(t))} : b.id = id
        isCBAllowed == checkChild(ContextOf(ParentNode(t, id)), "codeBlock")
        isBlockAllowedInCB == checkChild(<<"$root", "codeBlock">>, block.name)
    IN  isCBAllowed /\ isBlockAllowedInCB

\* The while loop of getRangesOfBlockGroups, from index i on; <<>> stands for
\* an unset startPosition.
RECURSIVE RangesLoop(_, _, _, _, _)
RangesLoop(t, blocks, i, startPosition, ranges) ==
    IF i > Len(blocks) THEN ranges
    ELSE LET block == blocks[i]
             nextBlock == IF i + 1 <= Len(blocks) THEN blocks[i + 1] ELSE NULL
             start == IF startPosition = <<>> THEN createBefore(t, block) ELSE startPosition
         IN  IF nextBlock = NULL \/ nextSibling(t, block) # nextBlock
             THEN RangesLoop(t, blocks, i + 1, <<>>,
                             Append(ranges, [start |-> start, end |-> createAfter(t, block)]))
             ELSE RangesLoop(t, blocks, i + 1, start, ranges)

\* A faulty variant: the loop closes a range only at the last block, the test of
\* block.nextSibling left out.
RECURSIVE RangesLoop_NoSiblingTest(_, _, _, _, _)
RangesLoop_NoSiblingTest(t, blocks, i, startPosition, ranges) ==
    IF i > Len(blocks) THEN ranges
    ELSE LET block == blocks[i]
             nextBlock == IF i + 1 <= Len(blocks) THEN blocks[i + 1] ELSE NULL
             start == IF startPosition = <<>> THEN createBefore(t, block) ELSE startPosition
         IN  IF nextBlock = NULL
             THEN RangesLoop_NoSiblingTest(t, blocks, i + 1, <<>>,
                             Append(ranges, [start |-> start, end |-> createAfter(t, block)]))
             ELSE RangesLoop_NoSiblingTest(t, blocks, i + 1, start, ranges)

getRangesOfBlockGroups_NoSiblingTest(t, blocks) ==
    RangesLoop_NoSiblingTest(t, blocks, 1, <<>>, <<>>)

getRangesOfBlockGroups(t, blocks) == RangesLoop(t, blocks, 1, <<>>, <<>>)

\* A faulty variant: the case of a range that is the whole content is missing, so such
\* a range is moved out and its codeBlock stays.
RemoveGroup_NoFullUnwrap(s, groupRange) ==
    LET t == s.root
    IN  IF isAtStart(groupRange.start)
        THEN LET positionBefore == createBefore(t, PosParent(t, groupRange.start).id)
             IN  [s EXCEPT !.root = writerMove(t, groupRange, positionBefore)]
        ELSE LET split == ~isAtEnd(t, groupRange.end)
                 el == NewElement(s.used)
                 t1 == IF split THEN writerSplit(t, groupRange.end, el.id) ELSE t
                 positionAfter == createAfter(t1, PosParent(t1, groupRange.end).id)
             IN  [root |-> writerMove(t1, groupRange, positionAfter),
                  used |-> IF split THEN s.used \cup {el.id} ELSE s.used]

\* A faulty variant: the blocks that are not at the start are moved before the
\* codeBlock, not after it.
RemoveGroup_MoveBefore(s, groupRange) ==
    LET t == s.root
    IN  IF isAtStart(groupRange.start) /\ isAtEnd(t, groupRange.end)
        THEN [s EXCEPT !.root = writerUnwrap(t, PosParent(t, groupRange.start))]
        ELSE IF isAtStart(groupRange.start)
        THEN LET positionBefore == createBefore(t, PosParent(t, groupRange.start).id)
             IN  [s EXCEPT !.root = writerMove(t, groupRange, positionBefore)]
        ELSE LET split == ~isAtEnd(t, groupRange.end)
                 el == NewElement(s.used)
                 t1 == IF split THEN writerSplit(t, groupRange.end, el.id) ELSE t
                 positionBefore == createBefore(t1, PosParent(t1, groupRange.end).id)
             IN  [root |-> writerMove(t1, groupRange, positionBefore),
                  used |-> IF split THEN s.used \cup {el.id} ELSE s.used]

\* A faulty variant: the first case unwraps the codeBlock of any range that
\* starts at its start.
RemoveGroup_UnwrapAtStart(s, groupRange) ==
    LET t == s.root
    IN  IF isAtStart(groupRange.start)
        THEN [s EXCEPT !.root = writerUnwrap(t, PosParent(t, groupRange.start))]
        ELSE LET split == ~isAtEnd(t, groupRange.end)
                 el == NewElement(s.used)
                 t1 == IF split THEN writerSplit(t, groupRange.end, el.id) ELSE t
                 positionAfter == createAfter(t1, PosParent(t1, groupRange.end).id)
             IN  [root |-> writerMove(t1, groupRange, positionAfter),
                  used |-> IF split THEN s.used \cup {el.id} ELSE s.used]

\* A faulty variant: the case of a range at the start is missing, so such a
\* range is split off and moved after the codeBlock.
RemoveGroup_NoPrefixCase(s, groupRange) ==
    LET t == s.root
    IN  IF isAtStart(groupRange.start) /\ isAtEnd(t, groupRange.end)
        THEN [s EXCEPT !.root = writerUnwrap(t, PosParent(t, groupRange.start))]
        ELSE LET split == ~isAtEnd(t, groupRange.end)
                 el == NewElement(s.used)
                 t1 == IF split THEN writerSplit(t, groupRange.end, el.id) ELSE t
                 positionAfter == createAfter(t1, PosParent(t1, groupRange.end).id)
             IN  [root |-> writerMove(t1, groupRange, positionAfter),
                  used |-> IF split THEN s.used \cup {el.id} ELSE s.used]

\* A faulty variant: the codeBlock is never split.
RemoveGroup_NoSplit(s, groupRange) ==
    LET t == s.root
    IN  IF isAtStart(groupRange.start) /\ isAtEnd(t, groupRange.end)
        THEN [s EXCEPT !.root = writerUnwrap(t, PosParent(t, groupRange.start))]
        ELSE IF isAtStart(groupRange.start)
        THEN LET positionBefore == createBefore(t, PosParent(t, groupRange.start).id)
             IN  [s EXCEPT !.root = writerMove(t, groupRange, positionBefore)]
        ELSE LET positionAfter == createAfter(t, PosParent(t, groupRange.end).id)
             IN  [s EXCEPT !.root = writerMove(t, groupRange, positionAfter)]

\* A faulty variant: the codeBlock is split also when the range ends at its end.
RemoveGroup_AlwaysSplit(s, groupRange) ==
    LET t == s.root
    IN  IF isAtStart(groupRange.start) /\ isAtEnd(t, groupRange.end)
        THEN [s EXCEPT !.root = writerUnwrap(t, PosParent(t, groupRange.start))]
        ELSE IF isAtStart(groupRange.start)
        THEN LET positionBefore == createBefore(t, PosParent(t, groupRange.start).id)
             IN  [s EXCEPT !.root = writerMove(t, groupRange, positionBefore)]
        ELSE LET el == NewElement(s.used)
                 t1 == writerSplit(t, groupRange.end, el.id)
                 positionAfter == createAfter(t1, PosParent(t1, groupRange.end).id)
             IN  [root |-> writerMove(t1, groupRange, positionAfter),
                  used |-> s.used \cup {el.id}]

\* The callback of the forEach of _removeBlock, on the state s = [root, used]
\* of the edit: the tree and the identities in use.
RemoveGroup(s, groupRange) ==
    LET t == s.root
    IN  IF isAtStart(groupRange.start) /\ isAtEnd(t, groupRange.end)
        THEN [s EXCEPT !.root = writerUnwrap(t, PosParent(t, groupRange.start))]
        ELSE IF isAtStart(groupRange.start)
        THEN LET positionBefore == createBefore(t, PosParent(t, groupRange.start).id)
             IN  [s EXCEPT !.root = writerMove(t, groupRange, positionBefore)]
        ELSE LET split == ~isAtEnd(t, groupRange.end)
                 el == NewElement(s.used)
                 t1 == IF split THEN writerSplit(t, groupRange.end, el.id) ELSE t
                 positionAfter == createAfter(t1, PosParent(t1, groupRange.end).id)
             IN  [root |-> writerMove(t1, groupRange, positionAfter),
                  used |-> IF split THEN s.used \cup {el.id} ELSE s.used]

\* One step of an execute(): what was done and the position it was done at.
Event(kind, at) == [kind |-> kind, at |-> at]

\* The forEach of _removeBlock from the i-th range on, on the state
\* s = [root, used, log]; log gets one "unwrap" step for each range.
\* The state s1 = [root, used] the callback left, with the steps l.
UnwrapStep(s1, l) == [root |-> s1.root, used |-> s1.used, log |-> l]

RECURSIVE RemoveGroups(_, _, _)
RemoveGroups(s, ranges, i) ==
    IF i > Len(ranges) THEN s
    ELSE RemoveGroups(UnwrapStep(RemoveGroup(s, ranges[i]),
                                 Append(s.log, Event("unwrap", ranges[i].start))),
                      ranges, i + 1)

\* _removeBlock( writer, blocks ), the state [root, used, log] it ends in;
\* `taken` are the identities of elements that exist or existed, which no
\* new element has.
removeBlock(t, blocks, taken) ==
    RemoveGroups([root |-> t, used |-> IdsOf(t) \cup taken, log |-> <<>>],
                 Reverse(getRangesOfBlockGroups(t, blocks)), 1)

\* A faulty variant: a new codeBlock is wrapped around every group, also around one
\* that is in a codeBlock.
ApplyGroup_AlwaysWrap(s, groupRange) ==
    LET t == s.root
        el == NewElement(s.used)
        t1 == writerWrap(t, groupRange, el)
    IN  [root |-> t1,
         used |-> s.used \cup {el.id},
         blocksToMerge |-> Append(s.blocksToMerge, nodeAfter(t1, groupRange.start))]

\* The callback of the forEach of _applyBlock, on the state
\* s = [root, used, blocksToMerge].
ApplyGroup(s, groupRange) ==
    LET t == s.root
        block == findBlockOfPosition(t, groupRange.start)
    IN  IF block = NULL
        THEN LET el == NewElement(s.used)
                 t1 == writerWrap(t, groupRange, el)
             IN  [root |-> t1,
                  used |-> s.used \cup {el.id},
                  blocksToMerge |-> Append(s.blocksToMerge, nodeAfter(t1, groupRange.start))]
        ELSE [s EXCEPT !.blocksToMerge = Append(@, block)]

\* The forEach of _applyBlock from the i-th range on, on the state
\* s = [root, used, blocksToMerge, log]; log gets one step for each range:
\* "wrap" when a codeBlock was made for it, "keep" when it had one.
WrapStep(s, s1, at) ==
    [root |-> s1.root, used |-> s1.used, blocksToMerge |-> s1.blocksToMerge,
     log |-> Append(s.log, Event(IF s1.used # s.used THEN "wrap" ELSE "keep", at))]

RECURSIVE ApplyGroups(_, _, _)
ApplyGroups(s, ranges, i) ==
    IF i > Len(ranges) THEN s
    ELSE ApplyGroups(WrapStep(s, ApplyGroup(s, ranges[i]), ranges[i].start), ranges, i + 1)

\* The callback of the reduce of _applyBlock, applied to blocks[i..], on the
\* state s = [root, log, start]: the tree, the steps so far and the tree the
\* reduce started on.  log gets a "visit" step for each item of blocks the
\* callback is handed, at the place the item had when the reduce started, and
\* a "merge" step for each writer.merge.
RECURSIVE MergeReduce(_, _, _, _)
MergeReduce(s, currentBlock, blocks, i) ==
    IF i > Len(blocks) THEN s
    ELSE LET nextBlock == blocks[i]
             t == s.root
             visit == Event("visit", PathOf(s.start, nextBlock))
         IN  IF nextSibling(t, currentBlock) = nextBlock
             THEN MergeReduce([s EXCEPT !.root = writerMerge(t, createAfter(t, currentBlock)),
                                        !.log = @ \o << visit, Event("merge", visit.at) >>],
                              currentBlock, blocks, i + 1)
             ELSE MergeReduce([s EXCEPT !.log = Append(@, visit)],
                              nextBlock, blocks, i + 1)

\* _applyBlock( writer, blocks ).  Array#reduce without an initial value
\* throws a TypeError on an empty array, and starts from the first item
\* otherwise.
Returned(s, e) == [root |-> s.root, err |-> e, log |-> s.log]

\* Lines 172-180 on the state s the forEach ended in: the reduce of the
\* reversed blocksToMerge.
mergePass(s, blocksToMerge) ==
    IF blocksToMerge = <<>>
    THEN Returned(s, "TypeError")
    ELSE Returned(MergeReduce([root |-> s.root, start |-> s.root,
                               log |-> Append(s.log, Event("visit", PathOf(s.root, blocksToMerge[1])))],
                              blocksToMerge[1], blocksToMerge, 2),
                  "none")

mergeAll(s) == mergePass(s, Reverse(s.blocksToMerge))

applyBlock(t, blocks, taken) ==
    mergeAll(ApplyGroups([root |-> t, used |-> IdsOf(t) \cup taken, blocksToMerge |-> <<>>,
                          log |-> <<>>],
                         Reverse(getRangesOfBlockGroups(t, blocks)), 1))

\* doc.selection.getSelectedBlocks(): the selected blocks in document order.
getSelectedBlocks(t, sel) ==
    LET flat == Flatten(t)
        ids == [i \in 1..Len(flat) |-> flat[i].id]
        Selected(id) == id \in sel
    IN  SelectSeq(ids, Selected)

\* The blocks execute() hands to _removeBlock (value v true) or to
\* _applyBlock (v false): the two filters of the selected blocks.
blocksOfExecute(t, sel, v) ==
    LET blocks == getSelectedBlocks(t, sel)
        InBlock(b) == findBlock(t, b) # NULL
        ToBlock(b) == findBlock(t, b) # NULL \/ checkCanBeBlocked(t, b)
    IN  IF v THEN SelectSeq(blocks, InBlock) ELSE SelectSeq(blocks, ToBlock)

\* The steps of the filter of execute(): with value v false, one "check" step
\* for each selected block findBlock finds no codeBlock for, as `||` only
\* then evaluates checkCanBeBlocked; with v true, none.
RECURSIVE checksOfExecute(_, _, _, _)
checksOfExecute(t, blocks, v, i) ==
    IF v \/ i > Len(blocks) THEN <<>>
    ELSE (IF findBlock(t, blocks[i]) = NULL
          THEN << Event("check", PathOf(t, blocks[i])) >>
          ELSE <<>>) \o checksOfExecute(t, blocks, v, i + 1)

\* A faulty variant: the test of the value is inverted.
execute_Swapped(t, sel, v, taken) ==
    IF ~v
    THEN Returned(removeBlock(t, blocksOfExecute(t, sel, TRUE), taken), "none")
    ELSE [applyBlock(t, blocksOfExecute(t, sel, FALSE), taken)
            EXCEPT !.log = checksOfExecute(t, getSelectedBlocks(t, sel), FALSE, 1) \o @]

\* execute(): the result [root, err, log] on the tree t with the selected
\* blocks sel and the command's value v.
execute(t, sel, v, taken) ==
    IF v
    THEN Returned(removeBlock(t, blocksOfExecute(t, sel, v), taken), "none")
    ELSE [applyBlock(t, blocksOfExecute(t, sel, v), taken)
            EXCEPT !.log = checksOfExecute(t, getSelectedBlocks(t, sel), v, 1) \o @]

\* A faulty variant: the last selected block decides, not the first.
getValue_Last(t, sel) ==
    LET blocks == getSelectedBlocks(t, sel)
    IN  blocks # <<>> /\ findBlock(t, blocks[Len(blocks)]) # NULL

\* _getValue()
getValue(t, sel) ==
    LET blocks == getSelectedBlocks(t, sel)
    IN  blocks # <<>> /\ findBlock(t, blocks[1]) # NULL

\* A faulty variant: the value is not looked at.
checkEnabled_IgnoreValue(t, sel, v) ==
    LET blocks == getSelectedBlocks(t, sel)
    IN  IF blocks = <<>> THEN FALSE
        ELSE checkCanBeBlocked(t, blocks[1])

\* _checkEnabled()
checkEnabled(t, sel, v) ==
    LET blocks == getSelectedBlocks(t, sel)
    IN  IF v THEN TRUE
        ELSE IF blocks = <<>> THEN FALSE
        ELSE checkCanBeBlocked(t, blocks[1])

-----------------------------------------------------------------------------
(* The state machine *)

\* The document of n blocks in which block i is named names[i] and is the child of a
\* codeBlock iff inCB[i]; neighbouring blocks in codeBlocks share one.
RECURSIVE BuildTree(_, _, _, _, _)
BuildTree(names, inCB, n, i, t) ==
    IF i > n THEN t
    ELSE LET block == [name |-> names[i], id |-> i, children |-> <<>>]
             last == Len(t)
         IN  IF ~inCB[i] THEN BuildTree(names, inCB, n, i + 1, Append(t, block))
             ELSE IF i > 1 /\ inCB[i - 1]
             THEN BuildTree(names, inCB, n, i + 1,
                            [t EXCEPT ![last].children = Append(@, block)])
             ELSE BuildTree(names, inCB, n, i + 1,
                            Append(t, [name |-> "codeBlock",
                                       id |-> Min(ContainerIds \ IdsOf(t)),
                                       children |-> <<block>>]))

\* Object identities are observable only through equality, so the state keeps
\* one representative of each renaming of them: the codeBlocks of the three
\* trees the state holds are numbered in the order in which `first`, then
\* `second`, then `third` meets them in document order.
ContainerSeq(t) ==
    LET cs == SelectSeq(t, IsContainer) IN [i \in 1..Len(cs) |-> cs[i].id]

Renaming(first, second, third) ==
    LET all == ContainerSeq(first) \o ContainerSeq(second) \o ContainerSeq(third)
        firstAt(id) == Min({i \in 1..Len(all) : all[i] = id})
        rank(id) == Cardinality({firstAt(all[j]) : j \in 1..firstAt(id)})
    IN  [id \in {all[i] : i \in 1..Len(all)} |-> IdBase + rank(id)]

Renamed(t, ren) ==
    [i \in 1..Len(t) |-> IF IsContainer(t[i]) THEN [t[i] EXCEPT !.id = ren[@]] ELSE t[i]]

\* Any document the schema allows, with nothing selected.
Init ==
    /\ \E names \in [Blocks -> BlockNames], inCB \in [Blocks -> BOOLEAN] :
        /\ \A i \in Blocks : names[i] = "fooBlock" => ~inCB[i]
        /\ root = BuildTree(names, inCB, NumBlocks, 1, <<>>)
    /\ selection = {}
    /\ value = FALSE
    /\ isEnabled = FALSE
    /\ op = "init"
    /\ pre = root
    /\ preEnabled = FALSE
    /\ err = "none"
    /\ op2 = "init"
    /\ pre2 = root
    /\ groups = <<>>
    /\ log = <<>>

\* The selection changes to the blocks sel; the command is refreshed.
Select(sel) ==
    /\ selection' = sel
    /\ value' = getValue(root, sel)
    /\ isEnabled' = checkEnabled(root, sel, value')
    /\ op' = "select"
    /\ pre' = root
    /\ preEnabled' = isEnabled'
    /\ err' = "none"
    /\ op2' = "select"
    /\ pre2' = root
    /\ groups' = <<>>
    /\ log' = <<>>
    /\ UNCHANGED root

\* execute() on the current selection, and the refresh() that follows the
\* change of the document.
Execute ==
    /\ LET r == execute(root, selection, value, IdsOf(pre))
           ren == Renaming(r.root, root, pre)
       IN  /\ root' = Renamed(r.root, ren)
           /\ pre' = Renamed(root, ren)
           /\ pre2' = Renamed(pre, ren)
           /\ err' = r.err
           /\ log' = r.log
    /\ value' = getValue(root', selection)
    /\ isEnabled' = checkEnabled(root', selection, value')
    /\ op' = IF value THEN "unwrap" ELSE "wrap"
    /\ preEnabled' = isEnabled
    /\ op2' = op
    /\ groups' = getRangesOfBlockGroups(root, blocksOfExecute(root, selection, value))
    /\ UNCHANGED selection

Next ==
    \/ \E sel \in SUBSET Blocks : Select(sel)
    \/ Execute

Spec == Init /\ [][Next]_vars

\* getRangesOfBlockGroups by itself: on a document of GroupBlocks
\* paragraphs, all siblings or a run lo..hi of them the children of a
\* codeBlock, the selection changes by one block at a time and the selected
\* blocks are grouped.
GroupInit ==
    /\ \E lo, hi \in 1..GroupBlocks :
        root = BuildTree([i \in 1..GroupBlocks |-> "paragraph"],
                         [i \in 1..GroupBlocks |-> lo <= i /\ i <= hi],
                         GroupBlocks, 1, <<>>)
    /\ selection = {}
    /\ value = FALSE
    /\ isEnabled = FALSE
    /\ op = "init"
    /\ pre = root
    /\ preEnabled = FALSE
    /\ err = "none"
    /\ op2 = "init"
    /\ pre2 = root
    /\ groups = <<>>
    /\ log = <<>>

Group(b) ==
    /\ selection' = IF b \in selection THEN selection \ {b} ELSE selection \cup {b}
    /\ groups' = getRangesOfBlockGroups(root, getSelectedBlocks(root, selection'))
    /\ op' = "group"
    /\ UNCHANGED <<root, value, isEnabled, pre, preEnabled, err, op2, pre2, log>>

GroupNext == \E b \in 1..GroupBlocks : Group(b)

GroupSpec == GroupInit /\ [][GroupNext]_vars

-----------------------------------------------------------------------------
(* What the claims speak of *)

\* Two sibling codeBlocks directly adjacent.
AdjacentContainers(t) ==
    \E i \in 1..(Len(t) - 1) : IsContainer(t[i]) /\ IsContainer(t[i + 1])

\* A codeBlock whose parent is a codeBlock.
NestedContainers(t) ==
    \E i \in 1..Len(t) :
        /\ IsContainer(t[i])
        /\ \E j \in 1..Len(t[i].children) : IsContainer(t[i].children[j])

ContainerIdsOf(t) == {id \in IdsOf(t) : id > IdBase}

\* The ids of the blocks in document order.
BlockOrder(t) == [i \in 1..Len(Flatten(t)) |-> Flatten(t)[i].id]

InContainer(t, b) == findBlock(t, b) # NULL

Executed == op \in {"wrap", "unwrap"}

-----------------------------------------------------------------------------
(* Claims *)

\* C1 (as claimed): after a Wrap on a tree without adjacent sibling codeBlocks
\* no two sibling codeBlocks are adjacent.  Stated for calls made while the
\* command was enabled and that threw nothing.
C1_NoAdjacentAfterWrap ==
    (op = "wrap" /\ preEnabled /\ err = "none" /\ ~AdjacentContainers(pre))
        => ~AdjacentContainers(root)

\* C2: Wrap followed at once by Unwrap over the same blocks, all of which
\* pass checkCanBeBlocked, gives back the tree from before the Wrap: the
\* same blocks in the same order under the same parents, and no codeBlock
\* that was not there before.
C2_WrapThenUnwrapRestores ==
    (op = "unwrap" /\ op2 = "wrap" /\ \A b \in selection : checkCanBeBlocked(pre2, b))
        => root = pre2

C2_Witness ==
    /\ op = "unwrap" /\ op2 = "wrap"
    /\ \A b \in selection : checkCanBeBlocked(pre2, b)
    /\ Cardinality(selection) >= 2
    /\ ContainerIdsOf(pre2) # {}
    /\ Cardinality(ContainerIdsOf(pre) \ ContainerIdsOf(pre2)) >= 2
    /\ root = pre2

\* C3: no codeBlock is ever the child of a codeBlock.
C3_NoNesting == ~NestedContainers(root)

C3_Witness ==
    /\ op = "wrap" /\ err = "none"
    /\ \E b \in selection : InContainer(pre, b)
    /\ \E b \in selection : ~InContainer(pre, b) /\ InContainer(root, b)
    /\ ~NestedContainers(root)

\* C4: execute() toggles by the value it finds.  With value true no selected
\* block is the child of a codeBlock afterwards; with value false every
\* selected block that was in a codeBlock or passed checkCanBeBlocked is the
\* child of a codeBlock afterwards.
C4_TogglesByValue ==
    /\ op = "unwrap" => \A b \in selection : ~InContainer(root, b)
    /\ op = "wrap" =>
        \A b \in selection :
            (InContainer(pre, b) \/ checkCanBeBlocked(pre, b)) => InContainer(root, b)

\* A Wrap of blocks in a codeBlock, bare blocks and a rejected block, and the
\* Unwrap that follows it.
C4_Witness ==
    /\ op = "unwrap" /\ op2 = "wrap"
    /\ \E b \in selection : InContainer(pre2, b)
    /\ \E b \in selection : ~InContainer(pre2, b) /\ checkCanBeBlocked(pre2, b)
    /\ \E b \in selection : ~InContainer(pre2, b) /\ ~checkCanBeBlocked(pre2, b)
    /\ \E b \in selection : InContainer(pre, b)
    /\ \A b \in selection : ~InContainer(root, b)

\* C5: neither Wrap nor Unwrap creates, destroys or reorders blocks: the
\* blocks read in document order are the same before and after execute().
C5_BlocksKept == Executed => Flatten(root) = Flatten(pre)

\* Several groups of one codeBlock unwrapped in one execute().
C5_Witness ==
    /\ op = "unwrap"
    /\ \E c \in ContainerIdsOf(pre) :
        Len(getRangesOfBlockGroups(pre,
              SelectSeq(getSelectedBlocks(pre, selection),
                        LAMBDA b : findBlock(pre, b) = c))) >= 2
    /\ root # pre
    /\ Flatten(root) = Flatten(pre)

\* C6: getRangesOfBlockGroups, given blocks in document order, returns ranges
\* in document order that are pairwise disjoint and together cover exactly the
\* given blocks, each a maximal run of blocks with
\* blocks[i].nextSibling == blocks[i+1]; their number is 1 plus the number of
\* indices where that equality fails, 0 for no blocks; and for the blocks
\* [a,b,d,f,g,h] among the siblings a..h they are [a,b], [d], [f,g,h].
RECURSIVE ItemsOfRanges(_, _, _)
ItemsOfRanges(t, ranges, i) ==
    IF i > Len(ranges) THEN <<>>
    ELSE LET items == RangeItems(t, ranges[i])
         IN  [j \in 1..Len(items) |-> items[j].id] \o ItemsOfRanges(t, ranges, i + 1)

LastOfRange(t, r) == RangeItems(t, r)[Len(RangeItems(t, r))].id

FirstOfRange(t, r) == RangeItems(t, r)[1].id

C6_Groups ==
    op = "group" =>
        LET blocks == getSelectedBlocks(root, selection)
            breaks == {i \in 1..(Len(blocks) - 1) : nextSibling(root, blocks[i]) # blocks[i + 1]}
        IN  /\ \A k \in 1..Len(groups) :
                /\ Len(groups[k].start) = Len(groups[k].end)
                /\ SubSeq(groups[k].start, 1, Len(groups[k].start) - 1)
                     = SubSeq(groups[k].end, 1, Len(groups[k].end) - 1)
                /\ Offset(groups[k].start) < Offset(groups[k].end)
                /\ Offset(groups[k].end) <= Len(PosParent(root, groups[k].end).children)
            /\ ItemsOfRanges(root, groups, 1) = blocks
            /\ \A k \in 1..(Len(groups) - 1) :
                nextSibling(root, LastOfRange(root, groups[k]))
                    # FirstOfRange(root, groups[k + 1])
            /\ Len(groups) = IF blocks = <<>> THEN 0 ELSE 1 + Cardinality(breaks)
            /\ (~\E i \in 1..Len(root) : IsContainer(root[i])) /\ selection = {1, 2, 4, 6, 7, 8}
                => groups = << [start |-> <<0>>, end |-> <<2>>],
                               [start |-> <<3>>, end |-> <<4>>],
                               [start |-> <<5>>, end |-> <<8>>] >>

C6_Witness ==
    /\ op = "group"
    /\ ~\E i \in 1..Len(root) : IsContainer(root[i])
    /\ selection = {1, 2, 4, 6, 7, 8}
    /\ groups = << [start |-> <<0>>, end |-> <<2>>],
                   [start |-> <<3>>, end |-> <<4>>],
                   [start |-> <<5>>, end |-> <<8>>] >>

RangeIn(i, from, to) == [start |-> <<i - 1, from>>, end |-> <<i - 1, to>>]

\* What _removeBlock's callback makes of the tree t for the range r.
Unblocked(t, r) == RemoveGroup([root |-> t, used |-> IdsOf(t)], r).root

\* The interior unwrap of the children at offsets from..to-1 of the codeBlock
\* t[i], as the claim describes it: t[i] keeps what precedes the range, the
\* range follows it, and a codeBlock that is none of t holds the rest.
IsInteriorUnwrap(t, i, from, to, result) ==
    LET c == t[i]
        n == to - from
    IN  /\ Len(result) = Len(t) + n + 1
        /\ SubSeq(result, 1, i - 1) = SubSeq(t, 1, i - 1)
        /\ result[i] = [c EXCEPT !.children = SubSeq(c.children, 1, from)]
        /\ SubSeq(result, i + 1, i + n) = SubSeq(c.children, from + 1, to)
        /\ result[i + n + 1].name = "codeBlock"
        /\ result[i + n + 1].id \notin IdsOf(t)
        /\ result[i + n + 1].children = SubSeq(c.children, to + 1, Len(c.children))
        /\ SubSeq(result, i + n + 2, Len(result)) = SubSeq(t, i + 1, Len(t))

IsInterior(t, r) == ~isAtStart(r.start) /\ ~isAtEnd(t, r.end)

IsFull(t, r) == isAtStart(r.start) /\ isAtEnd(t, r.end)

\* C8: the unwrap of a range in the interior of a codeBlock C leaves, at C's
\* place and in this order, C with the blocks before the range, the blocks of
\* the range as siblings of C, and a new codeBlock with the blocks after the
\* range.  For every interior range of every codeBlock of the document, and
\* for an execute() with value true whose selection is one such range.
C8_InteriorUnwrap ==
    /\ \A i \in 1..Len(root) :
        IsContainer(root[i]) =>
            \A from \in 1..Len(root[i].children), to \in 1..Len(root[i].children) :
                (from < to /\ to < Len(root[i].children)) =>
                    IsInteriorUnwrap(root, i, from, to, Unblocked(root, RangeIn(i, from, to)))
    /\ (op = "unwrap" /\ Len(groups) = 1 /\ IsInterior(pre, groups[1])) =>
            IsInteriorUnwrap(pre, groups[1].start[1] + 1,
                             Offset(groups[1].start), Offset(groups[1].end), root)

\* C = [p,q,r,s], the range [q,r]: C with [p], then q and r, then a new
\* codeBlock with [s].
C8_Witness ==
    /\ op = "unwrap"
    /\ Len(pre) = 1 /\ IsContainer(pre[1]) /\ BlockOrder(pre) = <<1, 2, 3, 4>>
    /\ selection = {2, 3}
    /\ Len(root) = 4
    /\ root[1].id = pre[1].id /\ BlockOrder(<<root[1]>>) = <<1>>
    /\ root[2].id = 2 /\ root[3].id = 3
    /\ IsContainer(root[4]) /\ root[4].id # pre[1].id /\ BlockOrder(<<root[4]>>) = <<4>>

\* The unwrap of the whole content of the codeBlock t[i]: the children take
\* its place in their order, and the siblings on both sides are as before.
IsFullUnwrap(t, i, result) ==
    result = SubSeq(t, 1, i - 1) \o t[i].children \o SubSeq(t, i + 1, Len(t))

\* C9: when an Unwrap range starts at the content start of the codeBlock C and
\* ends at its content end, C is removed and its children take its place in
\* C's parent in their order, the siblings of C unchanged on both sides.  For
\* every codeBlock of the document; for an execute() with value true whose
\* selection is the content of one codeBlock; and, when other codeBlocks are
\* unwrapped by the same execute(), C is gone and its children are siblings in
\* their order.
C9_FullUnwrap ==
    /\ \A i \in 1..Len(root) :
        (IsContainer(root[i]) /\ root[i].children # <<>>) =>
            IsFullUnwrap(root, i, Unblocked(root, RangeIn(i, 0, Len(root[i].children))))
    /\ (op = "unwrap" /\ Len(groups) = 1 /\ IsFull(pre, groups[1])) =>
            IsFullUnwrap(pre, groups[1].start[1] + 1, root)
    /\ op = "unwrap" =>
        \A k \in 1..Len(groups) :
            IsFull(pre, groups[k]) =>
                LET c == PosParent(pre, groups[k].start)
                IN  /\ c.id \notin IdsOf(root)
                    /\ \E j \in 0..(Len(root) - Len(c.children)) :
                          SubSeq(root, j + 1, j + Len(c.children)) = c.children

C9_Witness ==
    /\ op = "unwrap"
    /\ Len(groups) = 1 /\ IsFull(pre, groups[1])
    /\ groups[1].start[1] > 0
    /\ groups[1].start[1] + 1 < Len(pre)
    /\ Len(PosParent(pre, groups[1].start).children) >= 2
    /\ IsFullUnwrap(pre, groups[1].start[1] + 1, root)

\* C10 (as claimed): no Unwrap creates a codeBlock, so the number of
\* codeBlocks does not rise across an Unwrap.
C10_UnwrapCreatesNoContainer ==
    op = "unwrap" =>
        /\ ContainerIdsOf(root) \subseteq ContainerIdsOf(pre)
        /\ Cardinality(ContainerIdsOf(root)) <= Cardinality(ContainerIdsOf(pre))

\* C10 (amended): codeBlocks are created by Wrap and by the split of an
\* interior Unwrap, and destroyed only by Unwrap's direct removal or by Merge.
\* An Unwrap creates one codeBlock for each group that neither starts at the
\* content start of its codeBlock nor ends at its content end, and no other;
\* it destroys the codeBlocks whose whole content is one group, and no other.
\* A Wrap creates at most one codeBlock per group, and the blocks of a
\* codeBlock it destroys are children of a codeBlock afterwards.
C10_ContainerLifecycle ==
    /\ op = "unwrap" =>
        /\ Cardinality(ContainerIdsOf(root) \ ContainerIdsOf(pre))
             = Cardinality({k \in 1..Len(groups) : IsInterior(pre, groups[k])})
        /\ ContainerIdsOf(pre) \ ContainerIdsOf(root)
             = {PosParent(pre, groups[k].start).id :
                    k \in {j \in 1..Len(groups) : IsFull(pre, groups[j])}}
    /\ op = "wrap" =>
        /\ Cardinality(ContainerIdsOf(root) \ ContainerIdsOf(pre)) <= Len(groups)
        /\ \A i \in 1..Len(pre) :
            (IsContainer(pre[i]) /\ pre[i].id \notin ContainerIdsOf(root)) =>
                \A j \in 1..Len(pre[i].children) : InContainer(root, pre[i].children[j].id)

\* An Unwrap that creates a codeBlock and destroys another.
C10_Witness ==
    /\ op = "unwrap"
    /\ ContainerIdsOf(root) \ ContainerIdsOf(pre) # {}
    /\ ContainerIdsOf(pre) \ ContainerIdsOf(root) # {}


\* The first selected block in document order, NULL if none is selected.
FirstSelected(t, sel) ==
    LET order == BlockOrder(t)
        at == {i \in 1..Len(order) : order[i] \in sel}
    IN  IF at = {} THEN NULL ELSE order[Min(at)]

\* The block b is an immediate child of a codeBlock of the tree.
ParentIsCodeBlock(t, b) ==
    \E i \in 1..Len(t) :
        IsContainer(t[i]) /\ \E j \in 1..Len(t[i].children) : t[i].children[j].id = b

\* C11: after refresh(), value is true iff there is a first selected block and
\* its immediate parent is a codeBlock; isEnabled is true iff value is true or
\* there is a first selected block that checkCanBeBlocked accepts; with no
\* selected block both are false.
C11_Refresh ==
    LET b == FirstSelected(root, selection)
    IN  /\ value = (b # NULL /\ ParentIsCodeBlock(root, b))
        /\ isEnabled = (value \/ (b # NULL /\ checkCanBeBlocked(root, b)))
        /\ b = NULL => (~value /\ ~isEnabled)

\* refresh() after a change of the selection: the first selected block is
\* rejected, a later one is in a codeBlock, another would be accepted.
C11_Witness ==
    /\ op = "select"
    /\ ~value /\ ~isEnabled
    /\ \E b \in selection : ParentIsCodeBlock(root, b)
    /\ \E b \in selection : checkCanBeBlocked(root, b)

\* C12: checkCanBeBlocked returns false for every block whose parent is a
\* codeBlock, given the child check of CodeBlockEditing.init.
C12_BlockedIsNotBlockable ==
    \A i \in 1..Len(root) :
        IsContainer(root[i]) =>
            \A j \in 1..Len(root[i].children) :
                ~checkCanBeBlocked(root, root[i].children[j].id)

\* A Wrap whose selection holds a block of a codeBlock: checkCanBeBlocked
\* rejects it, findBlock keeps it in the wrap set.
C12_Witness ==
    /\ op = "wrap" /\ err = "none"
    /\ \E b \in selection :
        /\ ParentIsCodeBlock(pre, b)
        /\ ~checkCanBeBlocked(pre, b)
        /\ ParentIsCodeBlock(root, b)


\* C13 (as claimed): _applyBlock on a selection all of whose blocks are
\* children of a codeBlock leaves the tree as it is (no codeBlock created,
\* removed or merged) and the value true.  For every such selection of the
\* document.
C13_NoOpReWrap ==
    \A sel \in SUBSET Blocks :
        (sel # {} /\ \A b \in sel : ParentIsCodeBlock(root, b)) =>
            LET r == applyBlock(root, getSelectedBlocks(root, sel), {})
            IN  /\ r.err = "none"
                /\ r.root = root
                /\ getValue(r.root, sel)


LastBlockOf(n) == IF IsContainer(n) THEN n.children[Len(n.children)].id ELSE n.id

FirstBlockOf(n) == IF IsContainer(n) THEN n.children[1].id ELSE n.id

\* The selected blocks that are in no codeBlock and that checkCanBeBlocked
\* rejects.
RejectedBlocks(t, sel) ==
    {b \in sel : ~ParentIsCodeBlock(t, b) /\ ~checkCanBeBlocked(t, b)}

\* The block b, a child of $root before (tree t) and after (tree u), has not
\* moved: the sibling before it ends with the same block, the sibling after it
\* starts with the same block, and an accepted selected neighbour is now the
\* only thing between it and the edge of a codeBlock of its own side.
StaysInPlace(t, u, sel, b) ==
    LET i == IndexOf(t, b)
        j == IndexOf(u, b)
    IN  /\ i # 0 /\ j # 0
        /\ (i = 1) = (j = 1)
        /\ i > 1 => LastBlockOf(u[j - 1]) = LastBlockOf(t[i - 1])
        /\ (i = Len(t)) = (j = Len(u))
        /\ i < Len(t) => FirstBlockOf(u[j + 1]) = FirstBlockOf(t[i + 1])
        /\ (i > 1 /\ t[i - 1].id \in sel /\ checkCanBeBlocked(t, t[i - 1].id))
              => IsContainer(u[j - 1])
        /\ (i < Len(t) /\ t[i + 1].id \in sel /\ checkCanBeBlocked(t, t[i + 1].id))
              => IsContainer(u[j + 1])
        /\ (1 < j /\ j < Len(u)) => u[j - 1].id # u[j + 1].id

C14_RejectedBlockStays ==
    op = "wrap" =>
        \A b \in RejectedBlocks(pre, selection) : StaysInPlace(pre, root, selection, b)


\* Document order of two positions: p is before q.
RECURSIVE PathLess(_, _)
PathLess(p, q) ==
    IF q = <<>> THEN FALSE
    ELSE IF p = <<>> THEN TRUE
    ELSE IF p[1] # q[1] THEN p[1] < q[1]
    ELSE PathLess(Tail(p), Tail(q))

GroupSteps == {"wrap", "keep", "unwrap"}

MergeSteps == {"visit", "merge"}

\* Every checkCanBeBlocked of the execute() ran before its first edit.
ChecksFirst(l) ==
    \A i, j \in 1..Len(l) : (i < j /\ l[j].kind = "check") => l[i].kind = "check"

\* The groups were visited from the last one of the document to the first.
GroupsDescending(l) ==
    \A i, j \in 1..Len(l) :
        (i < j /\ l[i].kind \in GroupSteps /\ l[j].kind \in GroupSteps)
            => PathLess(l[j].at, l[i].at)

\* No group was visited once the merge pass had begun.
MergesLast(l) ==
    \A i, j \in 1..Len(l) : (i < j /\ l[i].kind \in MergeSteps) => l[j].kind \in MergeSteps

VisitsStrictlyAscending(l) ==
    \A i, j \in 1..Len(l) :
        (i < j /\ l[i].kind = "visit" /\ l[j].kind = "visit") => PathLess(l[i].at, l[j].at)

VisitsAscending(l) ==
    \A i, j \in 1..Len(l) :
        (i < j /\ l[i].kind = "visit" /\ l[j].kind = "visit") => ~PathLess(l[j].at, l[i].at)

\* C15 (as claimed): in one execute() every checkCanBeBlocked runs before the
\* first edit, the groups are visited in strictly descending document
\* position, every merge comes after the last wrap, and the merge pass visits
\* the recorded codeBlocks in strictly ascending document position.
C15_StrictlyOrdered ==
    Executed => /\ ChecksFirst(log)
                /\ GroupsDescending(log)
                /\ MergesLast(log)
                /\ VisitsStrictlyAscending(log)

\* C15 without "strictly" for the merge pass: a codeBlock that holds several
\* of the groups is recorded, and visited, once for each of them.
C15_Ordered ==
    Executed => /\ ChecksFirst(log)
                /\ GroupsDescending(log)
                /\ MergesLast(log)
                /\ VisitsAscending(log)


\* The prefix unwrap of the children at offsets 0..to-1 of the codeBlock
\* t[i]: they stand before t[i] in their order, and t[i] is the same element
\* with the children that followed them.
IsPrefixUnwrap(t, i, to, result) ==
    LET c == t[i]
    IN  result = SubSeq(t, 1, i - 1)
                 \o SubSeq(c.children, 1, to)
                 \o << [c EXCEPT !.children = SubSeq(c.children, to + 1, Len(c.children))] >>
                 \o SubSeq(t, i + 1, Len(t))

IsPrefix(t, r) == isAtStart(r.start) /\ ~isAtEnd(t, r.end)

\* C16: when an Unwrap range starts at the content start of the codeBlock C
\* and does not end at its content end, the blocks of the range are moved to
\* just before C in their order, C is not split and keeps exactly the blocks
\* that followed the range.  For every such range of every codeBlock of the
\* document, and for an execute() with value true whose selection is one such
\* range.
C16_PrefixUnwrap ==
    /\ \A i \in 1..Len(root) :
        IsContainer(root[i]) =>
            \A to \in 1..(Len(root[i].children) - 1) :
                IsPrefixUnwrap(root, i, to, Unblocked(root, RangeIn(i, 0, to)))
    /\ (op = "unwrap" /\ Len(groups) = 1 /\ IsPrefix(pre, groups[1])) =>
            /\ IsPrefixUnwrap(pre, groups[1].start[1] + 1, Offset(groups[1].end), root)
            /\ ContainerIdsOf(root) = ContainerIdsOf(pre)

\* C = [q,r,s] after p, the range [q,r]: p, q, r, then C with [s].
C16_Witness ==
    /\ op = "unwrap"
    /\ Len(pre) = 2 /\ pre[1].id = 1 /\ IsContainer(pre[2])
    /\ BlockOrder(pre) = <<1, 2, 3, 4>>
    /\ selection = {2, 3}
    /\ Len(root) = 4
    /\ root[1].id = 1 /\ root[2].id = 2 /\ root[3].id = 3
    /\ root[4].id = pre[2].id /\ BlockOrder(<<root[4]>>) = <<4>>

\* The suffix unwrap of the children at offsets from.. of the codeBlock t[i]:
\* t[i] is the same element with the children that preceded them, and they
\* stand after it in their order.
IsSuffixUnwrap(t, i, from, result) ==
    LET c == t[i]
    IN  result = SubSeq(t, 1, i - 1)
                 \o << [c EXCEPT !.children = SubSeq(c.children, 1, from)] >>
                 \o SubSeq(c.children, from + 1, Len(c.children))
                 \o SubSeq(t, i + 1, Len(t))

IsSuffix(t, r) == ~isAtStart(r.start) /\ isAtEnd(t, r.end)

\* C17: when an Unwrap range ends at the content end of the codeBlock C and
\* does not start at its content start, the blocks of the range are moved to
\* just after C in their order, nothing is split, no codeBlock is created and
\* C keeps exactly the blocks that preceded the range.  For every such range
\* of every codeBlock of the document, and for an execute() with value true
\* whose selection is one such range.
C17_SuffixUnwrap ==
    /\ \A i \in 1..Len(root) :
        IsContainer(root[i]) =>
            \A from \in 1..(Len(root[i].children) - 1) :
                LET result == Unblocked(root, RangeIn(i, from, Len(root[i].children)))
                IN  /\ IsSuffixUnwrap(root, i, from, result)
                    /\ ContainerIdsOf(result) = ContainerIdsOf(root)
    /\ (op = "unwrap" /\ Len(groups) = 1 /\ IsSuffix(pre, groups[1])) =>
            /\ IsSuffixUnwrap(pre, groups[1].start[1] + 1, Offset(groups[1].start), root)
            /\ ContainerIdsOf(root) = ContainerIdsOf(pre)

\* C = [p,q,r] before s, the range [q,r]: C with [p], then q, r and s.
C17_Witness ==
    /\ op = "unwrap"
    /\ Len(pre) = 2 /\ IsContainer(pre[1]) /\ pre[2].id = 4
    /\ BlockOrder(pre) = <<1, 2, 3, 4>>
    /\ selection = {2, 3}
    /\ Len(root) = 4
    /\ root[1].id = pre[1].id /\ BlockOrder(<<root[1]>>) = <<1>>
    /\ root[2].id = 2 /\ root[3].id = 3 /\ root[4].id = 4


\* C18: an Unwrap leaves the other blocks of codeBlocks in codeBlocks: after
\* execute() with value true every block that was the child of a codeBlock
\* and is not selected is still the child of a codeBlock, however many groups
\* are selected in the same or in different codeBlocks.
C18_OthersStayBlocked ==
    op = "unwrap" =>
        \A b \in Blocks :
            (ParentIsCodeBlock(pre, b) /\ b \notin selection) => ParentIsCodeBlock(root, b)

\* Two groups of one codeBlock unwrapped in one execute(), the blocks around
\* and between them still in codeBlocks.
C18_Witness ==
    /\ op = "unwrap"
    /\ Len(groups) >= 2
    /\ \E i \in 1..Len(pre) :
        /\ IsContainer(pre[i])
        /\ \A k \in 1..Len(groups) : groups[k].start[1] = i - 1
        /\ \E b \in Blocks : b \notin selection /\ ParentIsCodeBlock(pre, b)
                              /\ ParentIsCodeBlock(root, b)

\* C19: toggling alternates the value.  When the command is enabled and blocks
\* are selected, the value after execute() and the refresh is the negation of
\* the value execute() found; and a second execute() on the same selection
\* finds the command enabled and brings the value back to what it was before
\* the first.
C19_Alternates ==
    /\ (Executed /\ preEnabled /\ selection # {}) => value = (op = "wrap")
    /\ (Executed /\ op2 \in {"wrap", "unwrap"} /\ selection # {}
          /\ checkEnabled(pre2, selection, op2 = "unwrap"))
            => (preEnabled /\ op # op2 /\ value = (op2 = "unwrap"))

\* A Wrap of a selection that has a block in a codeBlock and rejected blocks
\* too, then the Unwrap of the same selection.
C19_Witness ==
    /\ op = "unwrap" /\ op2 = "wrap" /\ preEnabled /\ ~value
    /\ checkEnabled(pre2, selection, FALSE)
    /\ \E b \in selection : ParentIsCodeBlock(pre2, b)
    /\ RejectedBlocks(pre2, selection) # {}

\* C20: no empty codeBlock is left behind.  From a document whose codeBlocks
\* all have a child, after any sequence of execute() calls every codeBlock
\* has a child.
C20_NoEmptyContainer ==
    \A i \in 1..Len(root) : IsContainer(root[i]) => root[i].children # <<>>

\* An Unwrap that splits a codeBlock, after a Wrap that merged.
C20_Witness ==
    /\ op = "unwrap" /\ op2 = "wrap"
    /\ \E k \in 1..Len(log) : log[k].kind = "unwrap"
    /\ ContainerIdsOf(root) \ ContainerIdsOf(pre) # {}
    /\ Len(BlockOrder(pre2)) > Len(pre2) /\ Len(pre) < Len(pre2)
    /\ C20_NoEmptyContainer

====
